---- MODULE Spec2Model ----
(***************************************************************************)
(* Model of the terminal session multiplexer of src-tauri/src/lib.rs:      *)
(* the PtyState registry (a Mutex<HashMap<String, PtySession>>), the four  *)
(* tauri commands spawn_pty / write_pty / resize_pty / close_pty, the      *)
(* reader thread started by spawn_pty, the child processes, and the        *)
(* teardown of the managed states when run() ends.                         *)
(*                                                                         *)
(* Commands are executed by caller threads that may overlap; the only      *)
(* synchronisation between them is the registry mutex.  A critical section *)
(* that contains no blocking call is one atomic action (lock, body,        *)
(* unlock); write_pty keeps the lock over write_all and flush, so there    *)
(* the lock holder is part of the state.                                   *)
(*                                                                         *)
(* Spec is the program with a shell that reads its input and prints a      *)
(* prompt.  EchoSpec has a shell that echoes what it reads, under fair     *)
(* scheduling of the reader threads and the children.  PoisonSpec adds a   *)
(* panic under the registry lock.  ClampSpec calls spawn_pty with sizes    *)
(* from all over the u16 range.  HungSpec is Spec with the command threads *)
(* scheduled fairly and shells that may stop reading their input.          *)
(***************************************************************************)
EXTENDS Integers, Sequences, FiniteSets, TLC

\* ---------------------------------------------------------------- bounds
NumCallers == 2
NumIds == 2
MaxCalls == 3
MaxSessions == 2
MaxData == 2
BufCap == 1
MaxOut == 1
ReadCap == 2

Callers == 1..NumCallers
Ids == 1..NumIds
Sids == 1..MaxSessions
NoSession == 0
NoCaller == 0

\* the state of the registry mutex after a thread has panicked with the
\* guard in its hands: nobody holds it, and every lock() returns Err
Poisoned == -1

\* the tag of a write_pty call is <<its number, the length of its data>>;
\* NoCall is the tag of a caller that runs no write_pty
NoCall == <<0, 0>>

\* PtySize values a caller may pass: <<cols, rows>>
DimPairs == {<<0, 0>>}

\* cols: u16, rows: u16 -- the largest value, and the values tried out of
\* the range: those around the two floors and those at the upper end
U16Max == 65535
DimSamples == {0, 1, 2, 3, U16Max}

VARIABLES
    sessions,     \* PtyState.sessions : id -> session (NoSession = no entry)
    lockHolder,   \* the caller that owns the MutexGuard, or NoCaller, or
                  \* Poisoned
    pc,           \* position of each caller thread inside its command
    op,           \* the command a caller runs (or ran last)
    arg,          \* its id argument
    dims,         \* its <<cols, rows>> argument (spawn_pty, resize_pty)
    dlen,         \* length of its data argument (write_pty)
    cid,          \* tag of the write_pty call: <<its number, the length of its
                  \* data>>; every byte it writes carries the tag
    wpos,         \* bytes of data already handed to the writer
    mine,         \* the session a call works on (pair/child, or get_mut's)
    removed,      \* the session a spawn_pty call took out of the registry
    result,       \* the Result the command returned
    calls,        \* calls issued so far
    nextSid,      \* sessions spawned so far
    sidId,        \* id_clone captured by the reader thread of a session
    child,        \* state of the child process of a session
    killSent,     \* child.kill() has been called on the session's child
    reader,       \* state of the reader thread of a session
    ptySize,      \* size of the pseudo-terminal of a session
    input,        \* bytes delivered to the session's input stream, in order
    room,         \* free space in the pty input buffer
    outq,         \* bytes the child has written that the reader has not read
    emitted,      \* terminal-output events emitted by the session's reader,
                  \* in the order of emission: <<id, data>>
    tornDown,     \* run() has ended and the managed states were dropped
    \* history variables: they record what happened and guard no action
    wasReg,       \* the sessions that have been inserted into the registry
    stale,        \* the sessions that an open which has returned Ok(()) had
                  \* found under its id and replaced
    lastReg,      \* per id: the last insert or close_pty was "opened"/"closed"
    sinceClose,   \* per id: whether an open was issued since close last returned
    idsUsed,      \* the number of distinct ids passed to the commands so far
    found,        \* per caller: what its call found under its id
    duringReopen  \* per caller: its call was issued while another caller's
                  \* spawn_pty had removed a session of that id and not finished

vars == <<sessions, lockHolder, pc, op, arg, dims, dlen, cid, wpos, mine,
          removed, result, calls, nextSid, sidId, child, killSent, reader,
          ptySize, input, room, outq, emitted, tornDown, wasReg, stale,
          lastReg, sinceClose, idsUsed, found, duringReopen>>

callerVars == <<pc, op, arg, dims, dlen, cid, wpos, mine, removed, result>>
procVars == <<child, killSent>>
ioVars == <<input, room, outq, emitted>>
histVars == <<wasReg, stale, lastReg, sinceClose, idsUsed, found, duringReopen>>

\* ------------------------------------------------------------- helpers

\* rows.max(1), cols.max(2) of spawn_pty
Max(x, y) == IF x >= y THEN x ELSE y
Min(x, y) == IF x <= y THEN x ELSE y
\* (variant) the size passed on as it came
ClampSize_None(d) == d

ClampSize(d) == <<Max(d[1], 2), Max(d[2], 1)>>

\* the sizes a pseudo-terminal can be allocated with: at least two columns
\* and one row, each a u16
PtySizeOk(sz) == sz[1] \in 2..U16Max /\ sz[2] \in 1..U16Max

\* (variant) lock().unwrap_or_else(PoisonError::into_inner): a poisoned
\* mutex is taken like a free one
Free_IgnorePoison(h) == h \in {NoCaller, Poisoned}

\* state.sessions.lock() returns Ok(guard) once no thread owns the guard,
\* unless the mutex is poisoned
Free(h) == h = NoCaller

\* (variant) the guard dropped as soon as the session has been looked up
Hold_Release(c) == NoCaller

\* let mut sessions = state.sessions.lock()..?; in write_pty: the guard is
\* owned by the caller until the function returns
Hold(c) == c

\* (variant) a lookup that falls back to the first session when the key is absent
Lookup_OrFirst(m, id) == IF m[id] = NoSession THEN 1 ELSE m[id]

\* sessions.get_mut(&id) / the Option that sessions.remove(&id) returns
Lookup(m, id) == m[id]

\* (variant) sessions.clear() in the place of the removal of one key
MapRemove_All(m, id) == [i \in DOMAIN m |-> NoSession]

\* (variant) a removal that leaves the entry in place
MapRemove_Keep(m, id) == m

\* sessions.remove(&id)
MapRemove(m, id) == [m EXCEPT ![id] = NoSession]

\* (variant) entry(id).or_insert(session): an existing entry is kept
MapInsert_IfAbsent(m, id, s) == IF m[id] = NoSession THEN [m EXCEPT ![id] = s] ELSE m

\* sessions.insert(id, session): the entry of the key is replaced
MapInsert(m, id, s) == [m EXCEPT ![id] = s]

\* Child::kill(): Ok and the process dies if it was running, Err if the
\* process is already gone.  The caller discards the result (let _ =).
KillChild(st) == IF st = "alive" THEN "killed" ELSE st

\* the Result of the kill() on the child of session old, Ok when there is
\* no session and nothing is killed
KillResult(ch, old) ==
    IF old # NoSession /\ ch[old] # "alive" THEN "err" ELSE "ok"

\* (variant) session.child.kill().map_err(..)? : a failed kill ends the command
Discard_Propagate(kr, r) == IF kr = "err" THEN "io_error" ELSE r

\* let _ = session.child.kill(); : the Result kr is dropped and the command
\* goes on to r
Discard(kr, r) == r

\* if let Some(mut session) = .. { let _ = session.child.kill(); }
KillOld(ch, old) ==
    IF old # NoSession THEN [ch EXCEPT ![old] = KillChild(ch[old])] ELSE ch

MarkKill(ks, old) ==
    IF old # NoSession THEN [ks EXCEPT ![old] = TRUE] ELSE ks

\* (variant) close_pty reporting a missing session like write_pty does
CloseResult_Strict(old) == IF old = NoSession THEN "not_found" ELSE "ok"

\* what close_pty returns after the removal: Ok(()) whether or not there
\* was a session
CloseResult(old) == "ok"

\* (variant) writer.write: only the first byte of the payload is accepted
WriteByte_Short(stream, c, k) == IF k = 1 THEN Append(stream, <<c, k>>) ELSE stream

\* writer.write_all: the bytes reach the input stream in order
WriteByte(stream, c, k) == Append(stream, <<c, k>>)

\* the data of a write_pty call is a String, that is valid UTF-8: the text
\* of n bytes is one ASCII character (when n is odd) followed by two-byte
\* characters.  Text(n)[k] is the class of its k-th byte: "a" an ASCII byte,
\* "L" the lead byte and "C" the continuation byte of a two-byte character
Text(n) ==
    [k \in 1..n |->
        IF n % 2 = 1 /\ k = 1 THEN "a"
        ELSE IF k % 2 = n % 2 THEN "C" ELSE "L"]

\* a byte is <<tag of the call that wrote it, its position in the data>>
ByteClass(b) == Text(b[1][2])[b[2]]

\* what the shell writes on its own (its prompt): an ASCII byte
ShellByte == <<<<0, 1>>, 1>>

\* a decoded character is written as the sequence of the bytes it was made
\* of; U+FFFD put in the place of byte b is written <<b>>, b being a lead or
\* a continuation byte, which is no character on its own
Replacement(b) == <<b>>
IsReplacement(ch) == Len(ch) = 1 /\ ByteClass(ch[1]) # "a"

\* (variant) a decoder that drops what is not well-formed
Utf8Lossy_Drop(q) ==
    IF \A k \in 1..Len(q) : ByteClass(q[k]) = "a"
       THEN [k \in 1..Len(q) |-> <<q[k]>>]
       ELSE <<>>

\* String::from_utf8_lossy(&buffer[..bytes]): every maximal well-formed
\* sequence becomes its character, every byte that starts none (a lead byte
\* without its continuation, a continuation byte on its own) becomes U+FFFD
RECURSIVE Utf8Lossy(_)
Utf8Lossy(q) ==
    IF q = <<>> THEN <<>>
    ELSE IF ByteClass(q[1]) = "a"
       THEN <<(<<q[1]>>)>> \o Utf8Lossy(Tail(q))
    ELSE IF ByteClass(q[1]) = "L" /\ Len(q) >= 2 /\ ByteClass(q[2]) = "C"
       THEN <<(<<q[1], q[2]>>)>> \o Utf8Lossy(Tail(Tail(q)))
    ELSE <<Replacement(q[1])>> \o Utf8Lossy(Tail(q))

\* (variant) a spawn_pty that starts no thread
StartReader_Skip(rd, s) == rd

\* std::thread::spawn(move || loop { .. }): the reader thread of the new
\* session runs; the JoinHandle is dropped, so the thread is detached
StartReader(rd, s) == [rd EXCEPT ![s] = "running"]

\* (variant) a close_pty that joins the reader thread of the session
ReaderJoined_Wait(rd, old) == IF old = NoSession THEN TRUE ELSE rd[old] = "exited"

\* what close_pty waits for before it returns: PtySession holds no
\* JoinHandle of the reader thread, so nothing
ReaderJoined(rd, old) == TRUE

\* (variant) an emitter that puts the newest event first
Emit_Front(log, id, data) == <<(<<id, data>>)>> \o log

\* app_handle.emit("terminal-output", TerminalOutput { id, data })
Emit(log, id, data) == Append(log, <<id, data>>)

\* the bytes of the pty input buffer the child has not read yet
Unread(s) == SubSeq(input[s], Len(input[s]) - (BufCap - room[s]) + 1, Len(input[s]))

\* a spawn_pty of caller o has removed a session of id and has not returned
ReopenInProgress(o, id) ==
    /\ op[o] = "open"
    /\ arg[o] = id
    /\ pc[o] \in {"s_openpty", "s_spawn", "s_handles", "s_insert"}
    /\ removed[o] # NoSession

\* the command returns r: its locals (pair, child, the guard's borrow) are gone
Finish(c, r) ==
    /\ pc' = [pc EXCEPT ![c] = "idle"]
    /\ result' = [result EXCEPT ![c] = r]
    /\ mine' = [mine EXCEPT ![c] = NoSession]
    /\ removed' = [removed EXCEPT ![c] = NoSession]
    /\ wpos' = [wpos EXCEPT ![c] = 0]
    /\ dlen' = [dlen EXCEPT ![c] = 0]
    /\ cid' = [cid EXCEPT ![c] = NoCall]

\* the command goes on at p
Goto(c, p) ==
    /\ pc' = [pc EXCEPT ![c] = p]
    /\ UNCHANGED <<result, dlen, cid>>

Init ==
    /\ sessions = [i \in Ids |-> NoSession]
    /\ lockHolder = NoCaller
    /\ pc = [c \in Callers |-> "idle"]
    /\ op = [c \in Callers |-> "none"]
    /\ arg = [c \in Callers |-> 1]
    /\ dims = [c \in Callers |-> <<0, 0>>]
    /\ dlen = [c \in Callers |-> 0]
    /\ cid = [c \in Callers |-> NoCall]
    /\ wpos = [c \in Callers |-> 0]
    /\ mine = [c \in Callers |-> NoSession]
    /\ removed = [c \in Callers |-> NoSession]
    /\ result = [c \in Callers |-> "none"]
    /\ calls = 0
    /\ nextSid = 0
    /\ sidId = [s \in Sids |-> 0]
    /\ child = [s \in Sids |-> "unborn"]
    /\ killSent = [s \in Sids |-> FALSE]
    /\ reader = [s \in Sids |-> "none"]
    /\ ptySize = [s \in Sids |-> <<0, 0>>]
    /\ input = [s \in Sids |-> <<>>]
    /\ room = [s \in Sids |-> BufCap]
    /\ outq = [s \in Sids |-> <<>>]
    /\ emitted = [s \in Sids |-> <<>>]
    /\ tornDown = FALSE
    /\ wasReg = {}
    /\ stale = {}
    /\ lastReg = [i \in Ids |-> "never"]
    /\ sinceClose = [i \in Ids |-> "noclose"]
    /\ idsUsed = 0
    /\ found = [c \in Callers |-> "na"]
    /\ duringReopen = [c \in Callers |-> FALSE]

\* ------------------------------------------------- the frontend's invoke

FirstPc(o) ==
    CASE o = "open" -> "s_remove"
      [] o = "write" -> "w_lock"
      [] o = "resize" -> "r_resize"
      [] o = "close" -> "c_remove"

Issue(c, o, id, d, n) ==
    /\ ~tornDown
    /\ pc[c] = "idle"
    /\ calls < MaxCalls
    \* callers and ids are interchangeable: the callers are numbered in the
    \* order of their first call, the ids in the order of their first use
    /\ \A k \in 1..(c - 1) : op[k] # "none"
    /\ id <= idsUsed + 1
    /\ idsUsed' = Max(idsUsed, id)
    /\ calls' = calls + 1
    /\ pc' = [pc EXCEPT ![c] = FirstPc(o)]
    /\ op' = [op EXCEPT ![c] = o]
    /\ arg' = [arg EXCEPT ![c] = id]
    /\ dims' = [dims EXCEPT ![c] = IF o \in {"open", "resize"} THEN d ELSE <<0, 0>>]
    /\ dlen' = [dlen EXCEPT ![c] = IF o = "write" THEN n ELSE 0]
    /\ cid' = [cid EXCEPT ![c] = IF o = "write" THEN <<calls + 1, n>> ELSE NoCall]
    /\ result' = [result EXCEPT ![c] = "none"]
    /\ found' = [found EXCEPT ![c] = "na"]
    /\ duringReopen' = [duringReopen EXCEPT ![c] =
                           \E o2 \in Callers \ {c} : ReopenInProgress(o2, id)]
    /\ sinceClose' = IF o = "open" /\ sinceClose[id] = "quiet"
                        THEN [sinceClose EXCEPT ![id] = "openIssued"]
                        ELSE sinceClose
    /\ UNCHANGED <<sessions, lockHolder, wpos, mine, removed, nextSid, sidId,
                   procVars, reader, ptySize, ioVars, tornDown,
                   wasReg, stale, lastReg>>

\* ------------------------------------------------------------ spawn_pty

\* first block: lock, sessions.remove(&id), kill the old child, unlock
SpawnRemove(c) ==
    /\ ~tornDown
    /\ pc[c] = "s_remove"
    /\ Free(lockHolder)
    /\ LET id == arg[c]
           old == Lookup(sessions, id)
       IN /\ sessions' = MapRemove(sessions, id)
          /\ child' = KillOld(child, old)
          /\ killSent' = MarkKill(killSent, old)
          /\ found' = [found EXCEPT ![c] = IF old = NoSession THEN "absent" ELSE "present"]
          /\ IF Discard(KillResult(child, old), "ok") = "ok"
                THEN /\ removed' = [removed EXCEPT ![c] = old]
                     /\ Goto(c, "s_openpty")
                     /\ UNCHANGED <<wpos, mine>>
                ELSE Finish(c, Discard(KillResult(child, old), "ok"))
    /\ UNCHANGED <<lockHolder, op, arg, dims, calls, nextSid,
                   sidId, reader, ptySize, ioVars, tornDown, wasReg, stale,
                   lastReg, sinceClose, idsUsed, duringReopen>>

\* pty_system.openpty(PtySize {..}) : Ok when the size can be allocated, or
\* Err (for that or any other reason) returned to the caller
SpawnOpenpty(c) ==
    /\ ~tornDown
    /\ pc[c] = "s_openpty"
    /\ \/ /\ PtySizeOk(ClampSize(dims[c]))
          /\ Goto(c, "s_spawn")
          /\ UNCHANGED <<wpos, mine, removed>>
       \/ Finish(c, "io_error")
    /\ UNCHANGED <<sessions, lockHolder, op, arg, dims, calls, nextSid, sidId,
                   procVars, reader, ptySize, ioVars, tornDown,
                   histVars>>

\* pair.slave.spawn_command(cmd) : a new child process on a pty of the
\* clamped size, or Err returned to the caller
SpawnCommand(c) ==
    /\ ~tornDown
    /\ pc[c] = "s_spawn"
    /\ \/ /\ nextSid < MaxSessions
          /\ LET s == nextSid + 1
             IN /\ nextSid' = s
                /\ mine' = [mine EXCEPT ![c] = s]
                /\ sidId' = [sidId EXCEPT ![s] = arg[c]]
                /\ child' = [child EXCEPT ![s] = "alive"]
                /\ ptySize' = [ptySize EXCEPT ![s] = ClampSize(dims[c])]
          /\ Goto(c, "s_handles")
          /\ UNCHANGED <<wpos, removed>>
       \/ /\ Finish(c, "io_error")
          /\ UNCHANGED <<nextSid, sidId, child, ptySize>>
    /\ UNCHANGED <<sessions, lockHolder, op, arg, dims, calls, killSent,
                   reader, ioVars, tornDown, histVars>>

\* try_clone_reader, take_writer (either may fail), then thread::spawn
SpawnHandles(c) ==
    /\ ~tornDown
    /\ pc[c] = "s_handles"
    /\ \/ /\ reader' = StartReader(reader, mine[c])
          /\ Goto(c, "s_insert")
          /\ UNCHANGED <<wpos, mine, removed>>
       \/ /\ Finish(c, "io_error")
          /\ UNCHANGED reader
    /\ UNCHANGED <<sessions, lockHolder, op, arg, dims, calls, nextSid, sidId,
                   procVars, ptySize, ioVars, tornDown, histVars>>

\* second block: lock, sessions.insert(id, PtySession {..}), unlock, Ok(())
SpawnInsert(c) ==
    /\ ~tornDown
    /\ pc[c] = "s_insert"
    /\ Free(lockHolder)
    /\ sessions' = MapInsert(sessions, arg[c], mine[c])
    /\ wasReg' = wasReg \cup {mine[c]}
    /\ stale' = stale \cup ({removed[c]} \ {NoSession})
    /\ lastReg' = [lastReg EXCEPT ![arg[c]] = "opened"]
    /\ Finish(c, "ok")
    /\ UNCHANGED <<lockHolder, op, arg, dims, calls, nextSid, sidId, procVars,
                   reader, ptySize, ioVars, tornDown, sinceClose,
                   idsUsed, found, duringReopen>>

\* ------------------------------------------------------------ write_pty

\* lock, sessions.get_mut(&id): "missing terminal session" when absent;
\* otherwise the guard stays alive for the rest of the function
WriteLock(c) ==
    /\ ~tornDown
    /\ pc[c] = "w_lock"
    /\ Free(lockHolder)
    /\ LET s == Lookup(sessions, arg[c])
       IN /\ found' = [found EXCEPT ![c] = IF s = NoSession THEN "absent" ELSE "present"]
          /\ IF s = NoSession
                THEN /\ Finish(c, "not_found")
                     /\ UNCHANGED lockHolder
                ELSE /\ lockHolder' = Hold(c)
                     /\ mine' = [mine EXCEPT ![c] = s]
                     /\ Goto(c, "w_write")
                     /\ UNCHANGED <<wpos, removed>>
    /\ UNCHANGED <<sessions, op, arg, dims, calls, nextSid, sidId, procVars,
                   reader, ptySize, ioVars, tornDown, wasReg, stale,
                   lastReg, sinceClose, idsUsed, duringReopen>>

\* session.writer.write_all(data.as_bytes()), one byte per step: the byte is
\* accepted when the pty input buffer has room (otherwise the call blocks);
\* once the child is gone the write may fail, and the error is returned
WriteAll(c) ==
    /\ ~tornDown
    /\ pc[c] = "w_write"
    /\ lockHolder = Hold(c)
    /\ LET s == mine[c]
       IN \/ /\ room[s] > 0
             /\ input' = [input EXCEPT ![s] = WriteByte(input[s], cid[c], wpos[c] + 1)]
             /\ room' = [room EXCEPT ![s] = room[s] - 1]
             /\ wpos' = [wpos EXCEPT ![c] = wpos[c] + 1]
             /\ Goto(c, IF wpos[c] + 1 = dlen[c] THEN "w_flush" ELSE "w_write")
             /\ UNCHANGED <<lockHolder, mine, removed>>
          \/ /\ child[s] # "alive"
             /\ Finish(c, "io_error")
             /\ lockHolder' = NoCaller
             /\ UNCHANGED <<input, room>>
    /\ UNCHANGED <<sessions, op, arg, dims, calls, nextSid, sidId, procVars,
                   reader, ptySize, outq, emitted, tornDown,
                   histVars>>

\* session.writer.flush(), then Ok(()); the guard is dropped on return
WriteFlush(c) ==
    /\ ~tornDown
    /\ pc[c] = "w_flush"
    /\ lockHolder = Hold(c)
    /\ \/ Finish(c, "ok")
       \/ /\ child[mine[c]] # "alive"
          /\ Finish(c, "io_error")
    /\ lockHolder' = NoCaller
    /\ UNCHANGED <<sessions, op, arg, dims, calls, nextSid, sidId, procVars,
                   reader, ptySize, ioVars, tornDown, histVars>>

\* ----------------------------------------------------------- resize_pty

\* lock, get_mut, session.master.resize(PtySize {rows, cols, ..}), unlock
ResizePty(c) ==
    /\ ~tornDown
    /\ pc[c] = "r_resize"
    /\ Free(lockHolder)
    /\ LET s == Lookup(sessions, arg[c])
       IN /\ found' = [found EXCEPT ![c] = IF s = NoSession THEN "absent" ELSE "present"]
          /\ IF s = NoSession
                THEN /\ Finish(c, "not_found")
                     /\ UNCHANGED ptySize
                ELSE \/ /\ ptySize' = [ptySize EXCEPT ![s] = dims[c]]
                        /\ Finish(c, "ok")
                     \/ /\ Finish(c, "io_error")
                        /\ UNCHANGED ptySize
    /\ UNCHANGED <<sessions, lockHolder, op, arg, dims, calls, nextSid, sidId,
                   procVars, reader, ioVars, tornDown, wasReg, stale,
                   lastReg, sinceClose, idsUsed, duringReopen>>

\* ------------------------------------------------------------ close_pty

\* lock, sessions.remove(&id), kill the child if there was one, Ok(())
ClosePty(c) ==
    /\ ~tornDown
    /\ pc[c] = "c_remove"
    /\ Free(lockHolder)
    /\ ReaderJoined(reader, Lookup(sessions, arg[c]))
    /\ LET id == arg[c]
           old == Lookup(sessions, id)
       IN /\ sessions' = MapRemove(sessions, id)
          /\ child' = KillOld(child, old)
          /\ killSent' = MarkKill(killSent, old)
          /\ found' = [found EXCEPT ![c] = IF old = NoSession THEN "absent" ELSE "present"]
          /\ lastReg' = [lastReg EXCEPT ![id] = "closed"]
          /\ sinceClose' = [sinceClose EXCEPT ![id] = "quiet"]
          /\ Finish(c, Discard(KillResult(child, old), CloseResult(old)))
    /\ UNCHANGED <<lockHolder, op, arg, dims, calls, nextSid, sidId, reader,
                   ptySize, ioVars, tornDown, wasReg, stale, idsUsed,
                   duringReopen>>

\* ------------------------------------------------------ the reader thread

\* one iteration of the loop: reader.read(&mut buffer)
\*   Ok(bytes) -> emit one terminal-output event,  Ok(0) | Err(_) -> break
\* the read returns between one byte and a buffer's worth of what the child
\* has written, and blocks while the child lives and has written nothing
ReaderRead(s) ==
    /\ ~tornDown
    /\ reader[s] = "running"
    /\ IF outq[s] # <<>>
          THEN /\ \E bytes \in 1..Min(Len(outq[s]), ReadCap) :
                    /\ outq' = [outq EXCEPT ![s] = SubSeq(outq[s], bytes + 1, Len(outq[s]))]
                    /\ emitted' = [emitted EXCEPT ![s] =
                                      Emit(emitted[s], sidId[s],
                                           Utf8Lossy(SubSeq(outq[s], 1, bytes)))]
               /\ UNCHANGED reader
          ELSE /\ child[s] # "alive"
               /\ reader' = [reader EXCEPT ![s] = "exited"]
               /\ UNCHANGED <<outq, emitted>>
    /\ UNCHANGED <<sessions, lockHolder, callerVars, calls, nextSid, sidId,
                   procVars, ptySize, input, room, tornDown, histVars>>

\* ------------------------------------------------- the child (the shell)

\* the shell reads a byte of its input
ChildConsume(s) ==
    /\ ~tornDown
    /\ child[s] = "alive"
    /\ room[s] < BufCap
    /\ room' = [room EXCEPT ![s] = room[s] + 1]
    /\ UNCHANGED <<sessions, lockHolder, callerVars, calls, nextSid, sidId,
                   procVars, reader, ptySize, input, outq, emitted, histVars,
                   tornDown>>

\* the terminal echoes a byte of input that the shell reads (the pty is in
\* its default mode, with echo on)
ChildEcho(s) ==
    /\ ~tornDown
    /\ child[s] = "alive"
    /\ room[s] < BufCap
    /\ room' = [room EXCEPT ![s] = room[s] + 1]
    /\ outq' = [outq EXCEPT ![s] = Append(outq[s], Head(Unread(s)))]
    /\ UNCHANGED <<sessions, lockHolder, callerVars, calls, nextSid, sidId,
                   procVars, reader, ptySize, input, emitted, histVars,
                   tornDown>>

\* the shell prints (its prompt) on its terminal
ChildOutput(s) ==
    /\ ~tornDown
    /\ child[s] = "alive"
    /\ Len(outq[s]) + Len(emitted[s]) < MaxOut
    /\ outq' = [outq EXCEPT ![s] = Append(outq[s], ShellByte)]
    /\ UNCHANGED <<sessions, lockHolder, callerVars, calls, nextSid, sidId,
                   procVars, reader, ptySize, input, room, emitted, histVars,
                   tornDown>>

\* the shell exits on its own
ChildExit(s) ==
    /\ ~tornDown
    /\ child[s] = "alive"
    /\ child' = [child EXCEPT ![s] = "exited"]
    /\ UNCHANGED <<sessions, lockHolder, callerVars, calls, nextSid, sidId,
                   killSent, reader, ptySize, ioVars, histVars, tornDown>>

\* ------------------------------------------------------ a poisoned lock

\* a panic in the code that write_pty calls with the guard in its hands
\* (the pty crate's writer): the unwinding of the thread drops the guard,
\* which marks the mutex as poisoned; the command never answers
Panic(c) ==
    /\ ~tornDown
    /\ pc[c] \in {"w_write", "w_flush"}
    /\ lockHolder = c
    /\ lockHolder' = Poisoned
    /\ Finish(c, "panic")
    /\ UNCHANGED <<sessions, op, arg, dims, calls, nextSid, sidId, procVars,
                   reader, ptySize, ioVars, tornDown, histVars>>

\* state.sessions.lock().map_err(|_| "terminal state poisoned".to_string())?
\* on a poisoned mutex: the command returns the error; the locals of
\* spawn_pty (pair, child) are dropped, the child is not killed
LockPoisoned(c) ==
    /\ ~tornDown
    /\ pc[c] \in {"s_remove", "s_insert", "w_lock", "r_resize", "c_remove"}
    /\ lockHolder = Poisoned
    /\ Finish(c, "poisoned")
    /\ UNCHANGED <<sessions, lockHolder, op, arg, dims, calls, nextSid, sidId,
                   procVars, reader, ptySize, ioVars, tornDown, histVars>>

\* ------------------------------------------------------------- teardown

\* run() ends and the process exits.  PtyState has no Drop impl (unlike
\* McpTaskServerState) and nothing calls child.kill() on the sessions that
\* are still registered: the registry and the children are left as they
\* were.  The threads of the process (commands in flight, readers) are gone.
Teardown ==
    /\ ~tornDown
    /\ tornDown' = TRUE
    /\ lockHolder' = NoCaller
    /\ pc' = [c \in Callers |-> "idle"]
    /\ op' = [c \in Callers |-> "none"]
    /\ arg' = [c \in Callers |-> 1]
    /\ dims' = [c \in Callers |-> <<0, 0>>]
    /\ dlen' = [c \in Callers |-> 0]
    /\ cid' = [c \in Callers |-> NoCall]
    /\ wpos' = [c \in Callers |-> 0]
    /\ mine' = [c \in Callers |-> NoSession]
    /\ removed' = [c \in Callers |-> NoSession]
    /\ result' = [c \in Callers |-> "none"]
    /\ found' = [c \in Callers |-> "na"]
    /\ duringReopen' = [c \in Callers |-> FALSE]
    /\ reader' = [s \in Sids |-> IF reader[s] = "running" THEN "exited" ELSE reader[s]]
    /\ UNCHANGED <<sessions, calls, nextSid, sidId, procVars, ptySize, ioVars,
                   wasReg, stale, lastReg, sinceClose, idsUsed>>

\* ------------------------------------------------------- specification

Ops == {"open", "write", "resize", "close"}

Next ==
    \/ \E c \in Callers, o \in Ops, id \in Ids, d \in DimPairs, n \in 1..MaxData :
          Issue(c, o, id, d, n)
    \/ \E c \in Callers : SpawnRemove(c)
    \/ \E c \in Callers : SpawnOpenpty(c)
    \/ \E c \in Callers : SpawnCommand(c)
    \/ \E c \in Callers : SpawnHandles(c)
    \/ \E c \in Callers : SpawnInsert(c)
    \/ \E c \in Callers : WriteLock(c)
    \/ \E c \in Callers : WriteAll(c)
    \/ \E c \in Callers : WriteFlush(c)
    \/ \E c \in Callers : ResizePty(c)
    \/ \E c \in Callers : ClosePty(c)
    \/ \E s \in Sids : ReaderRead(s)
    \/ \E s \in Sids : ChildConsume(s)
    \/ \E s \in Sids : ChildOutput(s)
    \/ \E s \in Sids : ChildExit(s)
    \/ Teardown

Spec == Init /\ [][Next]_vars

\* the program with a shell that echoes its input, the reader threads and
\* the children being scheduled by the operating system: a thread or a
\* process that can take a step is not left waiting forever
EchoNext ==
    \/ \E c \in Callers, o \in Ops, id \in Ids, d \in DimPairs, n \in 1..MaxData :
          Issue(c, o, id, d, n)
    \/ \E c \in Callers : SpawnRemove(c)
    \/ \E c \in Callers : SpawnOpenpty(c)
    \/ \E c \in Callers : SpawnCommand(c)
    \/ \E c \in Callers : SpawnHandles(c)
    \/ \E c \in Callers : SpawnInsert(c)
    \/ \E c \in Callers : WriteLock(c)
    \/ \E c \in Callers : WriteAll(c)
    \/ \E c \in Callers : WriteFlush(c)
    \/ \E c \in Callers : ResizePty(c)
    \/ \E c \in Callers : ClosePty(c)
    \/ \E s \in Sids : ReaderRead(s)
    \/ \E s \in Sids : ChildEcho(s)
    \/ \E s \in Sids : ChildOutput(s)
    \/ \E s \in Sids : ChildExit(s)
    \/ Teardown

EchoSpec ==
    /\ Init
    /\ [][EchoNext]_vars
    /\ \A s \in Sids : WF_vars(ReaderRead(s)) /\ WF_vars(ChildEcho(s))

\* the program with a panic under the lock
PoisonNext ==
    \/ Next
    \/ \E c \in Callers : Panic(c)
    \/ \E c \in Callers : LockPoisoned(c)

PoisonSpec == Init /\ [][PoisonNext]_vars

\* spawn_pty called with sizes from all over the u16 range
ClampNext ==
    \/ \E d \in DimSamples \X DimSamples : Issue(1, "open", 1, d, 1)
    \/ SpawnRemove(1)
    \/ SpawnOpenpty(1)
    \/ SpawnCommand(1)
    \/ SpawnHandles(1)
    \/ SpawnInsert(1)

ClampSpec == Init /\ [][ClampNext]_vars

TypeOK ==
    /\ sessions \in [Ids -> Sids \cup {NoSession}]
    /\ lockHolder \in Callers \cup {NoCaller, Poisoned}
    /\ calls \in 0..MaxCalls
    /\ nextSid \in 0..MaxSessions
    /\ \A s \in Sids : room[s] \in 0..BufCap /\ Len(input[s]) >= BufCap - room[s]

\* ------------------------------------------------- notions used by claims

Registered(s) == \E i \in Ids : sessions[i] = s

\* the readers of id that have not left their loop
ActiveReaders(id) == {s \in Sids : sidId[s] = id /\ reader[s] = "running"}

\* the active readers of id whose child has not been sent a kill
UnkilledReaders(id) == {s \in ActiveReaders(id) : ~killSent[s]}

\* caller c takes a step of the command o in this transition
StepOf(c, o) == op[c] = o /\ pc[c] # "idle" /\ pc'[c] # pc[c] /\ ~tornDown'

\* caller c's command o returns in this transition
Returns(c, o) == op[c] = o /\ pc[c] # "idle" /\ pc'[c] = "idle" /\ ~tornDown'

\* the bytes of write call k found in a stream, in stream order
BytesOf(stream, k) == SelectSeq(stream, LAMBDA e : e[1] = k)

\* the whole payload of write call k of length n
Payload(k, n) == [j \in 1..n |-> <<k, j>>]

\* ------------------------------------------------------------------- C1
\* C1: at most one session is registered under an id, and whenever a new
\* session is inserted under an id, every session that was registered under
\* that id before has had its child sent a kill before the insertion.
C1_KillBeforeInsert ==
    [][\A i \in Ids :
          (sessions'[i] # NoSession /\ sessions'[i] # sessions[i])
             => \A s \in wasReg : sidId[s] = i => killSent[s]]_vars

\* ------------------------------------------------------------------- C2
\* C2: once open(id) has returned successfully and no open of id is in
\* flight, at most one reader is active for id (readers whose child was
\* already sent a kill, which are on their way to end-of-stream, are not
\* counted), so that a write, resize or close on id reaches the only live
\* session of that id.
OpenInFlight(id) == \E c \in Callers : op[c] = "open" /\ arg[c] = id /\ pc[c] # "idle"

C2_OneReaderAfterOpen ==
    \A c \in Callers :
       (op[c] = "open" /\ pc[c] = "idle" /\ result[c] = "ok" /\ ~OpenInFlight(arg[c]))
          => Cardinality(UnkilledReaders(arg[c])) <= 1

\* ------------------------------------------------------------------- C3
\* C3 (as stated): once close(id) has returned and no open(id) has been
\* issued since, a write(id) that reaches its lookup fails with not-found,
\* whatever other operations were in flight.
C3_NoReappear ==
    [][\A c \in Callers :
          (StepOf(c, "write") /\ pc[c] = "w_lock" /\ sinceClose[arg[c]] = "quiet")
             => (pc'[c] = "idle" /\ result'[c] = "not_found")]_vars

\* C3 (amended): once close(id) has returned, a write(id) fails with
\* not-found unless an open(id) has inserted a session since; and while no
\* insert has happened since the close, id has no registry entry.
C3_NotFoundAfterClose ==
    /\ [](\A i \in Ids : lastReg[i] = "closed" => sessions[i] = NoSession)
    /\ [][\A c \in Callers :
             (StepOf(c, "write") /\ pc[c] = "w_lock" /\ lastReg[arg[c]] = "closed")
                => (pc'[c] = "idle" /\ result'[c] = "not_found")]_vars

\* a write issued after a close of its id returned not-found, while the
\* other caller's open of that id, issued before the close, is in flight
\* and about to insert its session
C3_Witness ==
    \E c \in Callers : \E o \in Callers \ {c} :
       /\ op[c] = "write" /\ pc[c] = "idle" /\ result[c] = "not_found"
       /\ lastReg[arg[c]] = "closed" /\ sinceClose[arg[c]] = "quiet"
       /\ op[o] = "open" /\ arg[o] = arg[c] /\ pc[o] = "s_insert"

\* ------------------------------------------------------------------- C4
\* C4: after teardown no session that was still in the registry has a
\* child left alive.
C4_TeardownKills ==
    tornDown => \A i \in Ids :
                   sessions[i] # NoSession => child[sessions[i]] # "alive"

\* ------------------------------------------------------------------- C5
\* C5: a caller that is inside write_all or flush, or inside openpty or
\* spawn_command, does not hold the registry lock.
C5_NoLockAcrossIO ==
    \A c \in Callers :
       pc[c] \in {"w_write", "w_flush", "s_openpty", "s_spawn"} => lockHolder # c

C7_NotFound ==
    /\ [](\A i \in Ids : lastReg[i] \in {"never", "closed"} => sessions[i] = NoSession)
    /\ [][\A c \in Callers :
             (/\ op[c] \in {"write", "resize"}
              /\ pc[c] \in {"w_lock", "r_resize"}
              /\ pc'[c] # pc[c] /\ ~tornDown'
              /\ sessions[arg[c]] = NoSession)
                => /\ pc'[c] = "idle"
                   /\ result'[c] = "not_found"
                   /\ UNCHANGED <<sessions, child, killSent, reader, ptySize, input>>]_vars

\* a resize found no entry under an id whose session was opened and then
\* closed, and returned not-found
C7_Witness ==
    \E c \in Callers :
       /\ op[c] = "resize" /\ pc[c] = "idle"
       /\ result[c] = "not_found" /\ found[c] = "absent"
       /\ lastReg[arg[c]] = "closed"
       /\ \E s \in wasReg : sidId[s] = arg[c] /\ killSent[s]

\* ------------------------------------------------------------------- C8
\* C8: close on an id without entry returns success and changes nothing,
\* and a second close of an id leaves the registry and the children as the
\* first close left them.
C8_CloseIdempotent ==
    /\ [](\A i \in Ids :
            LET r1 == MapRemove(sessions, i)
                c1 == KillOld(child, Lookup(sessions, i))
                k1 == MarkKill(killSent, Lookup(sessions, i))
            IN /\ MapRemove(r1, i) = r1
               /\ KillOld(c1, Lookup(r1, i)) = c1
               /\ MarkKill(k1, Lookup(r1, i)) = k1
               /\ CloseResult(Lookup(r1, i)) = CloseResult(Lookup(sessions, i)))
    /\ [][\A c \in Callers :
             (StepOf(c, "close") /\ sessions[arg[c]] = NoSession)
                => /\ pc'[c] = "idle"
                   /\ result'[c] = "ok"
                   /\ UNCHANGED <<sessions, child, killSent, reader, ptySize, input>>]_vars

\* a close found no entry under its id, after an earlier close of that id,
\* and returned success
C8_Witness ==
    \E c \in Callers :
       /\ op[c] = "close" /\ pc[c] = "idle" /\ result[c] = "ok"
       /\ found[c] = "absent"
       /\ \E s \in wasReg : sidId[s] = arg[c] /\ killSent[s]

\* ------------------------------------------------------------------- C9
\* C9: no step of a write changes the registry, and a write that returns
\* success has delivered every byte of its payload, once and in order, to
\* the input stream of the session it found; any other write returns an
\* error.
C9_WriteDelivers ==
    [][\A c \in Callers :
          /\ StepOf(c, "write") => sessions' = sessions
          /\ Returns(c, "write")
                => \/ /\ result'[c] = "ok"
                      /\ BytesOf(input'[mine[c]], cid[c]) = Payload(cid[c], dlen[c])
                   \/ result'[c] \in {"not_found", "io_error"}]_vars

\* two callers write to the same id at the same time: one holds the lock
\* with its payload delivered, the other waits for the lock
C9_Witness ==
    \E c \in Callers : \E o \in Callers \ {c} :
       /\ op[c] = "write" /\ pc[c] = "w_flush" /\ wpos[c] = dlen[c]
       /\ op[o] = "write" /\ pc[o] = "w_lock" /\ arg[o] = arg[c]
       /\ sessions[arg[c]] = mine[c]

\* ------------------------------------------------------------------ C10
\* C10: whenever a session leaves the registry (by a close or by an open
\* that replaces it), its child has been sent a kill.
C10_RemovedIsKilled ==
    [][\A s \in Sids :
          (Registered(s) /\ ~Registered(s)') => killSent'[s]]_vars

\* ------------------------------------------------------------------ C11
\* C11 (as stated): when open(id) fails in the pty allocation or in the
\* process spawn, it returns an error and id is absent from the registry
\* afterwards.
C11_AbsentAfterFailedOpen ==
    [][\A c \in Callers :
          (op[c] = "open" /\ pc[c] \in {"s_openpty", "s_spawn"}
              /\ pc'[c] = "idle" /\ ~tornDown')
             => (result'[c] = "io_error" /\ sessions'[arg[c]] = NoSession)]_vars

\* C11 (amended): the first step of open(id) leaves id absent; while that
\* open is at the pty allocation or the process spawn, id gets an entry only
\* by the insert of another caller's open(id); and when the allocation or
\* the spawn fails, the open returns an error, has spawned no child and
\* started no reader, leaves the registry, the children and the readers as
\* they are, and the session it removed is not back in the registry.
C11_FailedOpen ==
    [][\A c \in Callers :
          /\ (StepOf(c, "open") /\ pc[c] = "s_remove")
                => (sessions'[arg[c]] = NoSession /\ pc'[c] = "s_openpty")
          /\ (op[c] = "open" /\ pc[c] \in {"s_openpty", "s_spawn"} /\ ~tornDown'
                 /\ sessions[arg[c]] = NoSession /\ sessions'[arg[c]] # NoSession)
                => \E o \in Callers \ {c} :
                      /\ Returns(o, "open") /\ pc[o] = "s_insert"
                      /\ arg[o] = arg[c] /\ sessions'[arg[c]] = mine[o]
          /\ (op[c] = "open" /\ pc[c] \in {"s_openpty", "s_spawn"}
                 /\ pc'[c] = "idle" /\ ~tornDown')
                => /\ result'[c] = "io_error"
                   /\ mine[c] = NoSession
                   /\ UNCHANGED <<sessions, nextSid, child, killSent, reader>>
                   /\ removed[c] # NoSession => sessions'[arg[c]] # removed[c]]_vars

\* a re-open of a registered id has failed before it spawned a child: the
\* id is absent, the old child was sent a kill, no second session exists
C11_Witness ==
    \E c \in Callers :
       /\ op[c] = "open" /\ pc[c] = "idle" /\ result[c] = "io_error"
       /\ found[c] = "present" /\ sessions[arg[c]] = NoSession
       /\ nextSid = 1 /\ killSent[1] /\ sidId[1] = arg[c]
       /\ \A s \in Sids \ {1} : reader[s] = "none" /\ child[s] = "unborn"

\* ------------------------------------------------------------------ C12
\* the tags a write_pty call can have
CallTags == (1..MaxCalls) \X (1..MaxData)

\* the whole data of write call k has reached the input stream of session s
Delivered(s, k) == BytesOf(input[s], k) = Payload(k, k[2])

\* the characters of the events that the reader of session s has emitted
\* under the id of the session
CharsOf(s) ==
    UNION {{e[2][j] : j \in 1..Len(e[2])} :
              e \in {emitted[s][i] : i \in {i \in 1..Len(emitted[s]) :
                                                emitted[s][i][1] = sidId[s]}}}

\* every byte of write call k is in an event of session s, in its character
\* or replaced by U+FFFD
Echoed(s, k) ==
    \A j \in 1..k[2] : \E ch \in CharsOf(s) : \E i \in 1..Len(ch) : ch[i] = <<k, j>>

\* every character of the data of write call k is in an event of session s
Intact(s, k) ==
    \A j \in 1..k[2] :
       \E ch \in CharsOf(s) :
          /\ ~IsReplacement(ch)
          /\ \E i \in 1..Len(ch) : ch[i] = <<k, j>>

\* the shell of session s is gone, or the process is
Gone(s) == child[s] # "alive" \/ tornDown

\* C12: once a write has delivered its data to an echoing shell, an event
\* of the session that carries the echoed text is eventually emitted, unless
\* the shell is gone (its session closed or replaced, or the shell has
\* exited).
C12_EchoCarried ==
    \A s \in Sids : \A k \in CallTags :
       Delivered(s, k) ~> (Intact(s, k) \/ Gone(s))

\* C12 (what does hold): from some time on, every byte of the data that a
\* write has delivered to an echoing shell that is not gone has been emitted
\* in an event of the session, in its character or replaced by U+FFFD
\* (delivered data stays delivered, emitted events stay emitted, and a shell
\* that is gone stays gone).
C12_EchoEmitted ==
    <>[](\A s \in Sids : \A k \in CallTags :
            Delivered(s, k) => (Echoed(s, k) \/ Gone(s)))

\* ------------------------------------------------------------------ C13
\* C13: whatever cols and rows of the u16 range open is called with, the
\* pty allocation can succeed, and the pseudo-terminal of the session that
\* open creates has max(cols, 2) columns and max(rows, 1) rows, each still
\* a u16; for cols = 0 and rows = 0 these are 2 columns and 1 row.
C13_Clamped ==
    \A c \in Callers :
       /\ (op[c] = "open" /\ pc[c] = "s_openpty")
             => ENABLED (SpawnOpenpty(c) /\ pc'[c] = "s_spawn")
       /\ (op[c] = "open" /\ pc[c] \in {"s_handles", "s_insert"})
             => LET cols == dims[c][1]
                    rows == dims[c][2]
                    sz == ptySize[mine[c]]
                IN /\ sz[1] = (IF cols < 2 THEN 2 ELSE cols)
                   /\ sz[2] = (IF rows < 1 THEN 1 ELSE rows)
                   /\ sz[1] \in 2..U16Max /\ sz[2] \in 1..U16Max
                   /\ (cols = 0 /\ rows = 0) => sz = <<2, 1>>

\* an open called with 0 columns and 0 rows has its child on a pty of 2
\* columns and 1 row, after an open with the largest size
C13_Witness ==
    \E c \in Callers :
       /\ op[c] = "open" /\ pc[c] = "s_insert"
       /\ dims[c] = <<0, 0>> /\ ptySize[mine[c]] = <<2, 1>>
       /\ \E s \in Sids \ {mine[c]} : ptySize[s] = <<U16Max, U16Max>>

\* ------------------------------------------------------------------ C14
\* the bytes that the reader of session s has read, in the order of its
\* events and, inside an event, of its characters
RECURSIVE Flatten(_)
Flatten(seqs) == IF seqs = <<>> THEN <<>> ELSE Head(seqs) \o Flatten(Tail(seqs))

BytesRead(s) == Flatten([i \in 1..Len(emitted[s]) |-> Flatten(emitted[s][i][2])])

\* the bytes of its input that the child of session s has read
Consumed(s) == SubSeq(input[s], 1, Len(input[s]) - Len(Unread(s)))

\* C14: the events of a session change only by its running reader adding
\* one event at the end, made of the non-empty chunk that this read took
\* from the front of what the child has written; every read adds an event;
\* the step by which the reader leaves its loop (end-of-stream or error)
\* emits nothing, and once it has left nothing is emitted; so the events
\* carry the child's output in the order it was written: the echoed bytes
\* that were read and those still unread are, in this order, the input the
\* child has read.
C14_OneEventPerRead ==
    /\ [](\A s \in Sids :
            SelectSeq(BytesRead(s) \o outq[s], LAMBDA b : b # ShellByte) = Consumed(s))
    /\ [][\A s \in Sids :
            /\ emitted'[s] # emitted[s]
                  => /\ reader[s] = "running" /\ reader'[s] = "running"
                     /\ \E n \in 1..Len(outq[s]) :
                           /\ n <= ReadCap
                           /\ outq'[s] = SubSeq(outq[s], n + 1, Len(outq[s]))
                           /\ emitted'[s] =
                                 Append(emitted[s],
                                        <<sidId[s], Utf8Lossy(SubSeq(outq[s], 1, n))>>)
            /\ Len(outq'[s]) < Len(outq[s])
                  => Len(emitted'[s]) = Len(emitted[s]) + 1
            /\ (reader[s] = "running" /\ reader'[s] = "exited" /\ ~tornDown')
                  => (outq[s] = <<>> /\ emitted'[s] = emitted[s])
            /\ reader[s] # "running" => emitted'[s] = emitted[s]]_vars

\* a reader has emitted two events for two reads, the first with the
\* shell's own output and the second with the echo of a written byte, and
\* has then left its loop at end-of-stream
C14_Witness ==
    \E s \in Sids :
       /\ reader[s] = "exited" /\ ~tornDown /\ outq[s] = <<>>
       /\ Len(emitted[s]) = 2
       /\ emitted[s][1][2] = <<(<<ShellByte>>)>>
       /\ emitted[s][2][2] # <<(<<ShellByte>>)>>

\* ------------------------------------------------------------------ C15
\* C15 (as stated): in every reachable state there are as many active
\* readers as there are sessions in the registry.
C15_ReadersEqualSessions ==
    Cardinality({s \in Sids : reader[s] = "running"})
       = Cardinality({i \in Ids : sessions[i] # NoSession})

\* C15 (amended): every session in the registry has a reader that was
\* started before the session was inserted; a reader is active until it
\* reads end-of-stream or an error, which it does only once the child is
\* gone, so the reader of a registered session whose child is alive is
\* active; and an active reader whose session is not in the registry
\* belongs to a session that an open in flight is about to insert or to a
\* session that was taken out of the registry.
C15_ReaderPerSession ==
    \A s \in Sids :
       /\ Registered(s) => reader[s] # "none"
       /\ (reader[s] = "exited" /\ ~tornDown) => child[s] # "alive"
       /\ (Registered(s) /\ child[s] = "alive" /\ ~tornDown) => reader[s] = "running"
       /\ (reader[s] = "running" /\ ~Registered(s))
             => \/ \E c \in Callers : pc[c] = "s_insert" /\ mine[c] = s
                \/ s \in wasReg

\* no command is in flight, one session is in the registry, and no reader
\* is active: the shell has exited on its own and the reader has read
\* end-of-stream
C15_Witness ==
    /\ ~tornDown
    /\ \A c \in Callers : pc[c] = "idle"
    /\ \E s \in Sids : Registered(s) /\ child[s] = "exited" /\ reader[s] = "exited"
    /\ \A s \in Sids : reader[s] # "running"

\* ------------------------------------------------------------------ C16
\* C16: once the registry lock is poisoned it stays poisoned, no step
\* changes the registry any more, and every open, write, resize or close
\* that comes to take the lock returns the poisoned-lock error to its
\* caller, leaving the registry, the children, the readers and the
\* pseudo-terminals as they are.
C16_PoisonedLock ==
    [][lockHolder = Poisoned
          => /\ lockHolder' = Poisoned \/ tornDown'
             /\ sessions' = sessions
             /\ \A c \in Callers :
                   (pc[c] \in {"s_remove", "s_insert", "w_lock", "r_resize", "c_remove"}
                       /\ pc'[c] # pc[c] /\ ~tornDown')
                      => /\ pc'[c] = "idle"
                         /\ result'[c] = "poisoned"
                         /\ UNCHANGED <<child, killSent, reader, ptySize, input>>]_vars

\* with the lock poisoned by a panic in a write, an open that had spawned
\* its child and started its reader has returned the poisoned-lock error at
\* its insert: its session is not in the registry, the session that was
\* written to still is
C16_Witness ==
    \E o \in Callers : \E s \in Sids :
       /\ lockHolder = Poisoned
       /\ op[o] = "open" /\ pc[o] = "idle" /\ result[o] = "poisoned"
       /\ sidId[s] = arg[o] /\ reader[s] = "running" /\ ~Registered(s)
       /\ s \notin wasReg
       /\ \E w \in Sids \ {s} : Registered(w) /\ input[w] # <<>>

\* ------------------------------------------------------------------ C17
\* C17: close(id) returns success and leaves id absent, and the first step
\* of open(id) leaves id absent and goes on to the pty allocation, whether
\* the kill of the child of the session they removed succeeded or failed;
\* a kill that fails leaves the child as it was.
C17_KillFailureIgnored ==
    [][\A c \in Callers :
          LET old == sessions[arg[c]]
          IN /\ StepOf(c, "close")
                   => /\ pc'[c] = "idle" /\ result'[c] = "ok"
                      /\ sessions'[arg[c]] = NoSession
             /\ (StepOf(c, "open") /\ pc[c] = "s_remove")
                   => /\ pc'[c] = "s_openpty"
                      /\ sessions'[arg[c]] = NoSession
             /\ (pc[c] \in {"c_remove", "s_remove"} /\ pc'[c] # pc[c] /\ ~tornDown'
                    /\ KillResult(child, old) = "err")
                   => child' = child]_vars

\* an open has replaced a session whose shell had exited, so that the kill
\* failed, and has registered the new session; that shell has exited too,
\* and a close, whose kill failed as well, has returned success
C17_Witness ==
    \E c \in Callers :
       /\ op[c] = "close" /\ pc[c] = "idle" /\ result[c] = "ok"
       /\ found[c] = "present" /\ sessions[arg[c]] = NoSession
       /\ Cardinality({s \in wasReg : sidId[s] = arg[c] /\ killSent[s]
                                         /\ child[s] = "exited"}) = 2

\* ------------------------------------------------------------------ C18
\* caller c is at a call on the writer or the master handle of session s:
\* try_clone_reader / take_writer in spawn_pty, write_all / flush in
\* write_pty (master.resize in resize_pty is inside one locked step)
Touches(c, s) ==
    /\ s # NoSession
    /\ mine[c] = s
    /\ pc[c] \in {"s_handles", "w_write", "w_flush"}

\* C18 (as stated): a caller that is at a call on the writer or the master
\* handle of a session holds the registry lock.
C18_OnlyUnderLock ==
    \A c \in Callers : \A s \in Sids : Touches(c, s) => lockHolder = c

\* C18 (amended): a caller that is at a call on the writer or the master
\* handle of a session holds the registry lock, or is the open that is
\* creating the session, which has never been in the registry; no two
\* callers are at such calls on the same session; and the input stream and
\* the size of a session that has been in the registry change only in a
\* step of a caller that holds the lock or takes the free lock for that
\* step.
C18_LockOrOwner ==
    /\ [](\A s \in Sids : \A c \in Callers :
            Touches(c, s)
               => /\ \/ lockHolder = c
                     \/ pc[c] = "s_handles" /\ s \notin wasReg /\ ~Registered(s)
                  /\ \A o \in Callers \ {c} : ~Touches(o, s))
    /\ [][\A s \in wasReg :
            /\ input'[s] # input[s]
                  => \E c \in Callers : lockHolder = c /\ mine[c] = s /\ pc[c] = "w_write"
            /\ ptySize'[s] # ptySize[s]
                  => \E c \in Callers :
                        /\ lockHolder = NoCaller /\ pc[c] = "r_resize"
                        /\ sessions[arg[c]] = s /\ pc'[c] = "idle"]_vars

\* one caller is writing to a registered session with the lock in its
\* hands while another caller, without the lock, is taking the reader and
\* the writer from the master handle of the session it is creating
C18_Witness ==
    \E c \in Callers : \E o \in Callers \ {c} :
       /\ pc[c] = "w_write" /\ lockHolder = c /\ Registered(mine[c])
       /\ pc[o] = "s_handles" /\ mine[o] \notin {NoSession, mine[c]}

\* ------------------------------------------------------------------ C19
\* C19: a close that has the lock free can return at once, whatever the
\* reader of its session is doing, and its step leaves every reader as it
\* is: no step of a reader is needed for close to return.
C19_CloseDoesNotWait ==
    /\ [](\A c \in Callers :
            (pc[c] = "c_remove" /\ lockHolder = NoCaller /\ ~tornDown)
               => ENABLED ClosePty(c))
    /\ [][\A c \in Callers :
            StepOf(c, "close") => (pc'[c] = "idle" /\ reader' = reader)]_vars

\* close has returned success for a session whose reader is still active:
\* the child was killed and the reader has not yet seen the end of stream
C19_Witness ==
    \E c \in Callers : \E s \in wasReg :
       /\ op[c] = "close" /\ pc[c] = "idle" /\ result[c] = "ok"
       /\ found[c] = "present" /\ sidId[s] = arg[c]
       /\ ~Registered(s) /\ child[s] = "killed"
       /\ reader[s] = "running" /\ ~tornDown

\* ------------------------------------------------------------------ C20
\* C20: an id gets a registry entry only by the insert of an open of that
\* id; the entry of an id goes or is replaced only in a step of a close or
\* of an open of that id; no step of a write or of a resize changes the
\* registry; and a step of a command on one id leaves the registry entry
\* of every other id, and the child and the reader of every session of
\* every other id, as they are.
C20_Frame ==
    [][/\ \A i \in Ids :
            /\ (sessions[i] = NoSession /\ sessions'[i] # NoSession)
                  => \E c \in Callers :
                        Returns(c, "open") /\ pc[c] = "s_insert" /\ arg[c] = i
            /\ (sessions[i] # NoSession /\ sessions'[i] # sessions[i])
                  => \E c \in Callers :
                        /\ arg[c] = i
                        /\ \/ Returns(c, "close")
                           \/ StepOf(c, "open") /\ pc[c] \in {"s_remove", "s_insert"}
       /\ \A c \in Callers :
            /\ (StepOf(c, "write") \/ StepOf(c, "resize")) => sessions' = sessions
            /\ (pc[c] # "idle" /\ pc'[c] # pc[c] /\ ~tornDown')
                  => \A j \in Ids \ {arg[c]} :
                        /\ sessions'[j] = sessions[j]
                        /\ \A s \in 1..nextSid :
                              sidId[s] = j
                                 => (child'[s] = child[s] /\ reader'[s] = reader[s])]_vars

\* a close of one id has removed its session and killed its child while
\* the session of another id is registered, its child alive and its reader
\* active
C20_Witness ==
    \E c \in Callers : \E j \in Ids \ {arg[c]} :
       /\ op[c] = "close" /\ pc[c] = "idle" /\ result[c] = "ok"
       /\ found[c] = "present" /\ sessions[arg[c]] = NoSession
       /\ sessions[j] # NoSession
       /\ child[sessions[j]] = "alive" /\ reader[sessions[j]] = "running"

\* ------------------------------------------------------------------ C21
\* C21: while the program runs and no open is in progress, every child that
\* an open has spawned and that was not sent a kill belongs to a session of
\* the registry.
C21_NoOrphan ==
    (~tornDown /\ \A c \in Callers : ~(op[c] = "open" /\ pc[c] # "idle"))
       => \A s \in Sids :
             (child[s] # "unborn" /\ ~killSent[s]) => Registered(s)

\* ------------------------------------------------------------------ C22
\* C22: once an open of a registered id has returned successfully, the
\* reader of the session it replaced emits no event (every event of that
\* reader carries the id of the re-opened session and data read from the
\* replaced session).
C22_NoStaleEvent ==
    [][\A s \in stale : emitted'[s] = emitted[s]]_vars

\* ------------------------------------------------------------------ C23
\* a step of the command that caller c runs
CallerStep(c) ==
    \/ SpawnRemove(c) \/ SpawnOpenpty(c) \/ SpawnCommand(c)
    \/ SpawnHandles(c) \/ SpawnInsert(c)
    \/ WriteLock(c) \/ WriteAll(c) \/ WriteFlush(c)
    \/ ResizePty(c) \/ ClosePty(c)

\* the program with its command threads scheduled by the operating system:
\* a command that can take its next step is not left waiting forever.  The
\* shells are under no obligation: a shell may stop reading its input.
HungSpec ==
    /\ Init
    /\ [][Next]_vars
    /\ \A c \in Callers : WF_vars(CallerStep(c))

\* C23: a close, a resize or an open that has been called returns, whatever
\* the shells do and whatever write is blocked on a shell that does not read
\* its input.
C23_CloseReturns ==
    \A c \in Callers :
       (op[c] \in {"close", "resize", "open"} /\ pc[c] # "idle")
          ~> (pc[c] = "idle")

\* ------------------------------------------------------------------ C24
\* the tags of the write calls that have bytes in a stream
Tags(stream) == {stream[i][1] : i \in 1..Len(stream)}

\* the bytes of every write call stand next to each other in the stream
Contiguous(stream) ==
    \A i \in 1..Len(stream) : \A j \in i..Len(stream) :
       stream[i][1] = stream[j][1]
          => \A m \in i..j : stream[m][1] = stream[i][1]

\* a write_pty call is inside write_all or flush on session s
WritingTo(s) ==
    \E c \in Callers : pc[c] \in {"w_write", "w_flush"} /\ mine[c] = s

\* C24 (as stated): while the program runs and no write to a session is in
\* progress, the input stream of the session is made of whole payloads: the
\* bytes of each write call stand together, and they are all there.
C24_WholePayloads ==
    \A s \in Sids :
       (~tornDown /\ ~WritingTo(s))
          => /\ Contiguous(input[s])
             /\ \A k \in Tags(input[s]) : BytesOf(input[s], k) = Payload(k, k[2])

\* C24 (amended): the bytes of each write call stand together in the input
\* stream of the session, in the order of the payload and from its first byte
\* on; a byte is added to the stream only by the write call that holds the
\* lock, at the end of the stream; and when a write call returns success its
\* whole payload is the end of the stream.  (A write that fails after its
\* first bytes leaves those bytes, and only those, in the stream.)
C24_WriteAtomic ==
    /\ [](\A s \in Sids :
            /\ Contiguous(input[s])
            /\ \A k \in Tags(input[s]) :
                  BytesOf(input[s], k)
                     = SubSeq(Payload(k, k[2]), 1, Len(BytesOf(input[s], k))))
    /\ [][/\ \A s \in Sids :
               input'[s] # input[s]
                  => \E c \in Callers :
                        /\ lockHolder = c /\ pc[c] = "w_write" /\ mine[c] = s
                        /\ input'[s] = Append(input[s], <<cid[c], wpos[c] + 1>>)
          /\ \A c \in Callers :
               (Returns(c, "write") /\ result'[c] = "ok")
                  => LET st == input'[mine[c]]
                     IN /\ Len(st) >= dlen[c]
                        /\ SubSeq(st, Len(st) - dlen[c] + 1, Len(st))
                              = Payload(cid[c], dlen[c])]_vars

\* a write is half way through its payload, with the lock in its hands and
\* its first byte at the end of the stream, while the other caller waits for
\* the lock to write to the same id
C24_Witness ==
    \E c \in Callers : \E o \in Callers \ {c} :
       /\ op[c] = "write" /\ pc[c] = "w_write" /\ lockHolder = c
       /\ wpos[c] = 1 /\ dlen[c] = 2
       /\ op[o] = "write" /\ pc[o] = "w_lock" /\ arg[o] = arg[c]
       /\ sessions[arg[c]] = mine[c]
       /\ input[mine[c]][Len(input[mine[c]])] = <<cid[c], 1>>

====
